---- MODULE Spec2Model ----
(***************************************************************************)
(* Model of the twitch2tg-bot monitor: monitorLoop (src/monitor.go) with   *)
(* the retry executor retryWithBackoff it delivers notifications through,  *)
(* the Telegram operations it invokes (sendPhotoMessage, editPhotoMessage, *)
(* editMessageCaption) and the Twitch lookups it polls.                    *)
(***************************************************************************)
EXTENDS Integers, Sequences, FiniteSets, TLC

(***************************************************************************)
(* Bounds of the model.                                                    *)
(***************************************************************************)
\* number of status answers Twitch gives about the channel before the
\* channel stays offline, when every input of monitorLoop varies
MaxAnswers == 4
\* number of live answers of the one broadcast monitorLoop is followed
\* through when the debug file is absent and the audience does not change
MaxBroadcast == 11
\* largest k for which "the operation succeeds on its k-th invocation" is
\* explored when retryWithBackoff is called on its own
MaxPlan == 10
\* largest such k explored for the deliveries made inside monitorLoop
MaxMonitorPlan == 2
\* largest message_id Telegram answers with
MaxHandle == 1
\* longest history the aggregation functions are applied to on their own
MaxTrendLen == 6

(***************************************************************************)
(* Program constants.                                                      *)
(***************************************************************************)
\* delays := []int{1, 3, 5, 10, 15, 30, 45, 60}
delays == <<1, 3, 5, 10, 15, 30, 45, 60>>
\* time.After(60 * time.Second) of the unbounded phase
SteadyDelay == 60
\* checksPerUpdate := (cfg.UpdateInterval * 60) / cfg.CheckInterval
SecondsPerMinute == 60
\* if len(history) < 4 { return "" }
MinTrendPoints == 4
\* case diff > 0.07, case diff < -0.07: the threshold in hundredths
TrendThresholdPercent == 7

(***************************************************************************)
(* Input domains.                                                          *)
(***************************************************************************)
\* (check_interval_seconds, update_interval_minutes), both > 0
Configs ==
    { [CheckInterval |-> 20, UpdateInterval |-> 1],
      [CheckInterval |-> 60, UpdateInterval |-> 1],
      [CheckInterval |-> 90, UpdateInterval |-> 1],
      [CheckInterval |-> 45, UpdateInterval |-> 2] }
\* the intervals used when the configuration file names none
\* (check_interval_seconds 60, update_interval_minutes 5)
DefaultConfig == [CheckInterval |-> 60, UpdateInterval |-> 5]
ViewerCounts == {0, 2}
\* game / title / tags of a stream as Twitch reports them
InfoMetas ==
    { [Game |-> "",   Title |-> "t1", Tags |-> <<>>],
      [Game |-> "g1", Title |-> "t1", Tags |-> <<"x">>],
      [Game |-> "g2", Title |-> "t2", Tags |-> <<"x">>] }
\* StreamInfo values getStreamInfo can return
StreamInfos ==
    { [Game |-> m.Game, Title |-> m.Title, Tags |-> m.Tags, Viewers |-> v] :
        m \in InfoMetas, v \in ViewerCounts }
\* message_id values decoded from Telegram's answer; 0 is the zero value left
\* in TelegramMessage when the answer carries no message_id
Handles == 0 .. MaxHandle
NoHandle == 0 - 1
NoSession == [nil |-> TRUE]
\* clip lists getRecentClips can return without an error
ClipLists == { << >>, << "c1" >> }
NoInfo == [nil |-> TRUE]
\* what Twitch knows of the channel when a status query reaches it
Statuses == {"live", "offline"}
\* viewer counts of the histories the aggregation functions are applied to
\* on their own; among them are histories whose relative change is exactly
\* 7 % over means that float64 does not hold exactly
TrendCounts == {0, 31, 33, 34}
Histories == UNION { [1 .. n -> TrendCounts] : n \in 0 .. MaxTrendLen }
\* getLocalization("en"): the three trend labels
loc == [Growing |-> "growing", Steady |-> "steady", Dropping |-> "dropping"]

VARIABLES
    pc,           \* position of the monitor goroutine
    cancelled,    \* ctx.Done() is closed
    sentinel,     \* the file simulate_end exists
    cfg,          \* *Config handed to monitorLoop
    session,      \* session *StreamSession (NoSession = nil)
    lastWasLive,  \* lastWasLive
    info,         \* info *StreamInfo of the current cycle (NoInfo = nil)
    messageID,    \* var messageID int of the Offline->Live branch
    opKind,       \* operation handed to retryWithBackoff in this cycle
    plan,         \* the invocation on which that operation succeeds (0: never)
    idx,          \* number of entries of delays already waited
    invocations,  \* how often the operation has been invoked in this call
    waits,        \* the waits that elapsed in this call, in seconds
    opOk,         \* outcome of the latest invocation
    result,       \* what retryWithBackoff returned
    polled,       \* how this cycle obtained its snapshot
    hadSession,   \* a session existed when this cycle started
    outstanding,  \* handle of the last created notification not yet finalized
    lookup,       \* outcome of this cycle's getBroadcasterID / getRecentClips
    clips,        \* clips handed to the message composer in this cycle
    addressed,    \* message_id the latest edit operation was sent for
    history,      \* history argument of the aggregation functions applied alone
    avgViewers,   \* avgViewers := calculateAverage(...)
    maxViewers,   \* maxViewers := getMaxViewers(...)
    trend,        \* trend text formatUpdateMessage got from viewerTrend
    refreshedAt,  \* length of the history when the counter was last at 0
    removal,      \* outcome of this cycle's os.Remove("simulate_end")
    channel       \* what Twitch will answer about the channel, query by query

vars == << pc, cancelled, sentinel, cfg, session, lastWasLive, info, messageID,
           opKind, plan, idx, invocations, waits, opOk, result, polled,
           hadSession, outstanding, lookup, clips, addressed, history,
           avgViewers, maxViewers, trend, refreshedAt, removal, channel >>

metricVars == << history, avgViewers, maxViewers, trend >>

retryVars == << opKind, plan, idx, invocations, waits, opOk, result >>

Min(a, b) == IF a < b THEN a ELSE b

\* checksPerUpdate := (cfg.UpdateInterval * 60) / cfg.CheckInterval
checksPerUpdate == (cfg.UpdateInterval * SecondsPerMinute) \div cfg.CheckInterval

\* NewSession with the seeding data point forgotten
NewSessionUnseeded(mid, i) ==
    [ MessageID     |-> mid,
      Game          |-> i.Game,
      Title         |-> i.Title,
      Tags          |-> i.Tags,
      StartTime     |-> "t0",
      BroadcasterID |-> "b1",
      ViewerHistory |-> << >>,
      UpdateCounter |-> 0 ]

\* session = &StreamSession{...} of the Offline->Live branch
NewSession(mid, i) ==
    [ MessageID     |-> mid,
      Game          |-> i.Game,
      Title         |-> i.Title,
      Tags          |-> i.Tags,
      StartTime     |-> "t0",
      BroadcasterID |-> "b1",
      ViewerHistory |-> << i.Viewers >>,
      UpdateCounter |-> 0 ]

\* gameChanged without the test for an empty cached game
gameChangedAnyCached(s, i) == i.Game # s.Game

\* gameChanged := info.Game != session.Game && session.Game != ""
gameChanged(s, i) == i.Game # s.Game /\ s.Game # ""

\* for _, p := range history { sum += p.Count }
RECURSIVE SumCounts(_)
SumCounts(h) == IF h = << >> THEN 0 ELSE Head(h) + SumCounts(Tail(h))

\* Go's integer division, which truncates toward zero
Quo(a, b) == IF a >= 0 THEN a \div b ELSE 0 - ((0 - a) \div b)

\* calculateAverage rounding the mean to the nearest integer
calculateAverageRounded(h) ==
    IF Len(h) = 0 THEN 0 ELSE Quo(2 * SumCounts(h) + Len(h), 2 * Len(h))

\* calculateAverage(history []ViewerDataPoint) int
calculateAverage(h) == IF Len(h) = 0 THEN 0 ELSE Quo(SumCounts(h), Len(h))

\* for _, p := range history { if p.Count > max { max = p.Count } }
RECURSIVE MaxFrom(_, _)
MaxFrom(max, h) ==
    IF h = << >> THEN max
    ELSE MaxFrom(IF Head(h) > max THEN Head(h) ELSE max, Tail(h))

\* getMaxViewers with the loop stopping one sample early
getMaxViewersSkippingLast(h) ==
    IF Len(h) = 0 THEN 0 ELSE MaxFrom(h[1], SubSeq(h, 1, Len(h) - 1))

\* getMaxViewers(history []ViewerDataPoint) int
getMaxViewers(h) == IF Len(h) = 0 THEN 0 ELSE MaxFrom(h[1], h)

(***************************************************************************)
(* float64 arithmetic of viewerTrend.  A float64 significand has 53 bits,  *)
(* more than a machine integer of the model holds, so the naturals that    *)
(* arise are kept as sequences of limbs, least significant limb first.     *)
(***************************************************************************)
\* bits of one limb, and the limb base 2^13
LimbBits == 13
LimbBase == 2 ^ LimbBits
\* bits of a float64 significand, the implicit leading bit included
SignificandBits == 53

RECURSIVE BigFromInt(_)
BigFromInt(n) ==
    IF n = 0 THEN << >> ELSE << n % LimbBase >> \o BigFromInt(n \div LimbBase)

\* 2^k
RECURSIVE BigPow2(_)
BigPow2(k) ==
    IF k < LimbBits THEN << 2 ^ k >> ELSE << 0 >> \o BigPow2(k - LimbBits)

\* a + b + c, c a carry below the limb base
RECURSIVE BigAdd(_, _, _)
BigAdd(a, b, c) ==
    IF a = << >> /\ b = << >>
       THEN (IF c = 0 THEN << >> ELSE << c >>)
       ELSE LET x == (IF a = << >> THEN 0 ELSE Head(a))
                     + (IF b = << >> THEN 0 ELSE Head(b)) + c
            IN  << x % LimbBase >>
                   \o BigAdd(IF a = << >> THEN a ELSE Tail(a),
                             IF b = << >> THEN b ELSE Tail(b),
                             x \div LimbBase)

\* a * m + c for one limb m and a carry c below the limb base
RECURSIVE BigMulLimb(_, _, _)
BigMulLimb(a, m, c) ==
    IF a = << >>
       THEN (IF c = 0 THEN << >> ELSE << c >>)
       ELSE LET x == Head(a) * m + c
            IN  << x % LimbBase >> \o BigMulLimb(Tail(a), m, x \div LimbBase)

\* a * b
RECURSIVE BigMul(_, _)
BigMul(a, b) ==
    IF b = << >> THEN << >>
    ELSE BigAdd(BigMulLimb(a, Head(b), 0), << 0 >> \o BigMul(a, Tail(b)), 0)

\* -1, 0 or 1 as a is below, equal to or above b
RECURSIVE BigCmp(_, _)
BigCmp(a, b) ==
    IF a = << >> /\ b = << >> THEN 0
    ELSE LET x    == IF a = << >> THEN 0 ELSE Head(a)
             y    == IF b = << >> THEN 0 ELSE Head(b)
             high == BigCmp(IF a = << >> THEN a ELSE Tail(a),
                            IF b = << >> THEN b ELSE Tail(b))
         IN  IF high # 0 THEN high
             ELSE IF x < y THEN 0 - 1 ELSE IF x > y THEN 1 ELSE 0

\* quotient q and remainder r of a by a divisor d with d * LimbBase
\* representable
RECURSIVE BigDivMod(_, _)
BigDivMod(a, d) ==
    IF a = << >> THEN [q |-> << >>, r |-> 0]
    ELSE LET high == BigDivMod(Tail(a), d)
             cur  == high.r * LimbBase + Head(a)
         IN  [q |-> << cur \div d >> \o high.q, r |-> cur % d]

\* the k with 2^52 <= n * 2^k / d < 2^53, for n, d > 0
RECURSIVE Scale(_, _, _)
Scale(n, d, k) ==
    IF n >= 2 * d THEN Scale(n, 2 * d, k - 1)
    ELSE IF n < d THEN Scale(2 * n, d, k + 1)
    ELSE k

(***************************************************************************)
(* float64(n) / float64(d) for integers n, d > 0 that float64 holds        *)
(* exactly: the quotient rounded to 53 significant bits, ties to the even  *)
(* significand.  The result is m / 2^k.                                    *)
(***************************************************************************)
FloatQuo(n, d) ==
    LET k      == Scale(n, d, SignificandBits - 1)
        scaled == BigDivMod(BigMul(BigFromInt(n), BigPow2(k)), d)
        odd    == scaled.q # << >> /\ Head(scaled.q) % 2 = 1
        up     == 2 * scaled.r > d \/ (2 * scaled.r = d /\ odd)
    IN  [m |-> IF up THEN BigAdd(scaled.q, << >>, 1) ELSE scaled.q, k |-> k]

(***************************************************************************)
(* The float64 nearest to 0.07 is c = 5044031582654956 / 2^56, and the     *)
(* midpoint between c and the next float64 above it is t = c + 2^-57; the  *)
(* significand of c is even, so a real number rounds to a float64 above c  *)
(* exactly when it is above t, and to one below -c exactly when it is      *)
(* below -t.  OnePlusT = (1 + t) * 2^57 and OneMinusT = (1 - t) * 2^57.    *)
(***************************************************************************)
ThresholdShift == 57
OnePlusT  == << 985, 2949, 655, 1966, 34 >>
OneMinusT == << 7207, 5242, 7536, 6225, 29 >>

\* late compared with bound / 2^57 * early, for float64 early = e.m / 2^e.k
\* and late = l.m / 2^l.k: 1 when above, -1 when below
FloatCmpScaled(l, e, bound) ==
    LET low == IF l.k < e.k THEN l.k ELSE e.k
    IN  BigCmp(BigMul(BigMul(l.m, BigPow2(e.k - low)), BigPow2(ThresholdShift)),
               BigMul(BigMul(bound, e.m), BigPow2(l.k - low)))

\* viewerTrend reporting no growth from an early mean of zero
viewerTrendZeroGuarded(h, l) ==
    IF Len(h) < MinTrendPoints THEN ""
    ELSE LET mid      == Len(h) \div 2
             rest     == Len(h) - mid
             earlySum == SumCounts(SubSeq(h, 1, mid))
             lateSum  == SumCounts(SubSeq(h, mid + 1, Len(h)))
             num      == lateSum * mid - earlySum * rest
             den      == earlySum * rest
             sign     == IF den < 0 THEN 0 - 1 ELSE 1
             early    == FloatQuo(earlySum * sign, mid)
             late     == FloatQuo(lateSum * sign, rest)
         IN  IF den = 0
                THEN l.Steady
                ELSE IF 100 * num * sign = TrendThresholdPercent * den * sign
                        THEN IF FloatCmpScaled(late, early, OnePlusT) = 1
                                THEN l.Growing ELSE l.Steady
                     ELSE IF 100 * num * sign = (0 - TrendThresholdPercent) * den * sign
                        THEN IF FloatCmpScaled(late, early, OneMinusT) = 0 - 1
                                THEN l.Dropping ELSE l.Steady
                     ELSE IF 100 * num * sign > TrendThresholdPercent * den * sign
                        THEN l.Growing
                     ELSE IF 100 * num * sign < (0 - TrendThresholdPercent) * den * sign
                        THEN l.Dropping
                     ELSE l.Steady

(***************************************************************************)
(* viewerTrend(history, loc).  early and late are the float64 means of the *)
(* two halves and diff := (late - early) / early.  With earlySum and       *)
(* lateSum the sums of the halves, the real value of diff is num / den.    *)
(* Each of the two divisions that give the means is off by at most 2^-53   *)
(* of its result, the subtraction and the last division add as much again, *)
(* so the float64 diff is within 2^-50 of num / den whenever that is below *)
(* 1 in magnitude, while a fraction num / den other than 7/100 is at least *)
(* 1 / (100 * den) away from it: the comparisons with 0.07 and -0.07 come  *)
(* out as for the real value unless num / den is exactly 7/100 or -7/100.  *)
(* There the means are within a factor 2 of each other, late - early is    *)
(* exact, and the outcome is that of the rounded means against the         *)
(* float64 threshold.  A float64 division by zero does not panic: it gives *)
(* +Inf, -Inf or, for 0/0, NaN, and every comparison with NaN is false.    *)
(***************************************************************************)
viewerTrend(h, l) ==
    IF Len(h) < MinTrendPoints THEN ""
    ELSE LET mid      == Len(h) \div 2
             rest     == Len(h) - mid
             earlySum == SumCounts(SubSeq(h, 1, mid))
             lateSum  == SumCounts(SubSeq(h, mid + 1, Len(h)))
             num      == lateSum * mid - earlySum * rest
             den      == earlySum * rest
             sign     == IF den < 0 THEN 0 - 1 ELSE 1
             early    == FloatQuo(earlySum * sign, mid)
             late     == FloatQuo(lateSum * sign, rest)
         IN  IF den = 0
                THEN IF num > 0 THEN l.Growing
                     ELSE IF num < 0 THEN l.Dropping
                     ELSE l.Steady
                ELSE IF 100 * num * sign = TrendThresholdPercent * den * sign
                        THEN IF FloatCmpScaled(late, early, OnePlusT) = 1
                                THEN l.Growing ELSE l.Steady
                     ELSE IF 100 * num * sign = (0 - TrendThresholdPercent) * den * sign
                        THEN IF FloatCmpScaled(late, early, OneMinusT) = 0 - 1
                                THEN l.Dropping ELSE l.Steady
                     ELSE IF 100 * num * sign > TrendThresholdPercent * den * sign
                        THEN l.Growing
                     ELSE IF 100 * num * sign < (0 - TrendThresholdPercent) * den * sign
                        THEN l.Dropping
                     ELSE l.Steady

\* clips, _ := getRecentClips(...): the list, nil when the lookup failed
RecentClips(ok, list) == IF ok THEN list ELSE << >>

\* CurrentDelay with the schedule indexed one entry too far
CurrentDelayOffByOne(n) ==
    IF n + 1 < Len(delays) THEN delays[n + 2] ELSE SteadyDelay

\* the wait after a failed invocation: the range variable delay of the
\* first loop, 60 seconds in the second
CurrentDelay(n) == IF n < Len(delays) THEN delays[n + 1] ELSE SteadyDelay

\* the most live answers a channel gives
LongestHistory == IF MaxBroadcast > MaxAnswers THEN MaxBroadcast ELSE MaxAnswers

TypeOK ==
    /\ pc \in {"top", "query", "broadcaster", "clips", "retry_call",
              "retry_wait", "retry_ret", "sleep", "stopped",
              "avg", "max", "trend", "aggregated"}
    /\ cancelled \in BOOLEAN
    /\ sentinel \in BOOLEAN
    /\ cfg \in Configs \cup {DefaultConfig}
    /\ lastWasLive \in BOOLEAN
    /\ info \in StreamInfos \cup {NoInfo}
    /\ messageID \in Handles
    /\ opKind \in {"none", "create", "update", "finalize"}
    /\ plan \in 0 .. MaxPlan
    /\ idx \in 0 .. Len(delays)
    /\ invocations \in 0 .. MaxPlan + 1
    /\ Len(waits) <= MaxPlan
    /\ opOk \in {"none", "ok", "err"}
    /\ result \in {"none", "success", "cancelled"}
    /\ polled \in {"none", "sentinel", "error", "absent", "present"}
    /\ hadSession \in BOOLEAN
    /\ outstanding \in {NoHandle} \cup Handles
    /\ lookup \in {"none", "ok", "err"}
    /\ clips \in ClipLists
    /\ addressed \in {NoHandle} \cup Handles
    /\ history \in Histories
    /\ avgViewers \in Nat
    /\ maxViewers \in Nat
    /\ trend \in {"", loc.Growing, loc.Steady, loc.Dropping}
    /\ refreshedAt \in 0 .. LongestHistory
    /\ removal \in {"none", "ok", "err"}
    /\ channel \in Seq(Statuses)
    /\ Len(channel) <= LongestHistory
    /\ session # NoSession =>
          /\ session.MessageID \in Handles
          /\ Len(session.ViewerHistory) \in 1 .. LongestHistory
          /\ session.UpdateCounter \in Int

(***************************************************************************)
(* State after monitorLoop's prologue (lines 48-51), whatever the channel  *)
(* is going to do.                                                         *)
(***************************************************************************)
Started ==
    /\ pc = "top"
    /\ cancelled = FALSE
    /\ sentinel \in BOOLEAN
    /\ session = NoSession
    /\ lastWasLive = FALSE
    /\ info = NoInfo
    /\ messageID = 0
    /\ opKind = "none"
    /\ plan = 0
    /\ idx = 0
    /\ invocations = 0
    /\ waits = << >>
    /\ opOk = "none"
    /\ result = "none"
    /\ polled = "none"
    /\ hadSession = FALSE
    /\ outstanding = NoHandle
    /\ lookup = "none"
    /\ clips = << >>
    /\ addressed = NoHandle
    /\ history = << >>
    /\ avgViewers = 0
    /\ maxViewers = 0
    /\ trend = ""
    /\ refreshedAt = 0
    /\ removal = "none"

\* monitorLoop started on a channel that is live or offline, in any order,
\* at the first MaxAnswers answers and offline from then on
Init ==
    /\ Started
    /\ cfg \in Configs
    /\ channel \in [1 .. MaxAnswers -> Statuses]

\* retryWithBackoff(ctx, operation, name) is entered with a fresh schedule
StartRetry(kind, p) ==
    /\ pc' = "retry_call"
    /\ opKind' = kind
    /\ plan' = p
    /\ idx' = 0
    /\ invocations' = 0
    /\ waits' = << >>
    /\ opOk' = "none"
    /\ result' = "none"

\* the cycle goes to sleep(ctx, CheckInterval) without a delivery
EndCycle ==
    /\ pc' = "sleep"
    /\ UNCHANGED retryVars

(***************************************************************************)
(* monitorLoop, top of the loop: select on ctx.Done().                     *)
(***************************************************************************)
Stop ==
    /\ pc = "top"
    /\ cancelled
    /\ pc' = "stopped"
    /\ UNCHANGED << cancelled, sentinel, cfg, session, lastWasLive, info,
                    messageID, retryVars, polled, hadSession, outstanding, lookup, clips,
                    addressed >>
    /\ UNCHANGED metricVars
    /\ UNCHANGED << refreshedAt, removal, channel >>

(***************************************************************************)
(* fileExists("simulate_end"): os.Remove is called and its error ignored,  *)
(* so the file is gone when the removal succeeded and still there when it  *)
(* failed; with a session the cycle sets err and leaves through the        *)
(* err != nil branch, without one it goes on with info = nil, err = nil.   *)
(* None of this waits for a collaborator.                                  *)
(***************************************************************************)
PollSentinel ==
    /\ pc = "top"
    /\ ~cancelled
    /\ sentinel
    /\ \E removed \in BOOLEAN :
          /\ sentinel' = ~removed
          /\ removal' = IF removed THEN "ok" ELSE "err"
    /\ polled' = "sentinel"
    /\ hadSession' = (session # NoSession)
    /\ info' = NoInfo
    /\ lastWasLive' = IF session # NoSession THEN lastWasLive ELSE FALSE
    /\ EndCycle
    /\ UNCHANGED << cancelled, cfg, session, messageID, outstanding, lookup, clips,
                    addressed >>
    /\ UNCHANGED metricVars
    /\ UNCHANGED << refreshedAt, channel >>

\* QueryStatus with the loop relying on the query, not on the select on
\* ctx.Done() at the top, to notice the cancellation
QueryStatusIgnoringCancel ==
    /\ pc = "top"
    /\ ~sentinel
    /\ pc' = "query"
    /\ hadSession' = (session # NoSession)
    /\ UNCHANGED << cancelled, sentinel, cfg, session, lastWasLive, info,
                    messageID, retryVars, polled, outstanding, lookup, clips,
                    addressed >>
    /\ UNCHANGED metricVars
    /\ UNCHANGED << refreshedAt, removal, channel >>

(***************************************************************************)
(* The select at the top found ctx.Done() open and the file absent:        *)
(* getStreamInfo is called.  Until it returns the goroutine waits, and the *)
(* signal or the file can arrive meanwhile.                                *)
(***************************************************************************)
QueryStatus ==
    /\ pc = "top"
    /\ ~cancelled
    /\ ~sentinel
    /\ pc' = "query"
    /\ hadSession' = (session # NoSession)
    /\ UNCHANGED << cancelled, sentinel, cfg, session, lastWasLive, info,
                    messageID, retryVars, polled, outstanding, lookup, clips,
                    addressed >>
    /\ UNCHANGED metricVars
    /\ UNCHANGED << refreshedAt, removal, channel >>

\* channel holds, in the order of the status queries Twitch answers, what
\* getStreamInfo finds; the query under way finds the channel live when
\* the next entry says so, and then info != nil (isLive)
ChannelLive == channel # << >> /\ Head(channel) = "live"

\* the channel once the query under way is answered: the statuses of the
\* later queries; past the last of them the channel is offline
Answered == IF channel = << >> THEN channel ELSE Tail(channel)

\* PollError treating a failed status query as "channel offline"
PollErrorAsOffline ==
    /\ pc = "query"
    /\ polled' = "error"
    /\ info' = NoInfo
    /\ session' = NoSession
    /\ EndCycle
    /\ UNCHANGED << cancelled, sentinel, cfg, lastWasLive, messageID,
                    hadSession, outstanding, lookup, clips, addressed >>
    /\ UNCHANGED metricVars
    /\ UNCHANGED << refreshedAt, removal, channel >>

\* PollError returning from monitorLoop on the error
PollErrorFatal ==
    /\ pc = "query"
    /\ polled' = "error"
    /\ info' = NoInfo
    /\ pc' = "stopped"
    /\ UNCHANGED retryVars
    /\ UNCHANGED << cancelled, sentinel, cfg, session, lastWasLive, messageID,
                    hadSession, outstanding, lookup, clips, addressed >>
    /\ UNCHANGED metricVars
    /\ UNCHANGED << refreshedAt, removal, channel >>

\* PollError with the status query driven by its own ticker, also while
\* a delivery is waiting to be retried
PollErrorOnTicker ==
    /\ pc \in {"query", "retry_wait"}
    /\ polled' = "error"
    /\ info' = NoInfo
    /\ pc' = IF pc = "query" THEN "sleep" ELSE pc
    /\ UNCHANGED retryVars
    /\ UNCHANGED << cancelled, sentinel, cfg, session, lastWasLive, messageID,
                    hadSession, outstanding, lookup, clips, addressed >>
    /\ UNCHANGED metricVars
    /\ UNCHANGED << refreshedAt, removal, channel >>

(***************************************************************************)
(* getStreamInfo returns an error, whatever the channel is doing: logged,  *)
(* sleep, continue.  The query did not learn the channel's status.         *)
(***************************************************************************)
PollError ==
    /\ pc = "query"
    /\ polled' = "error"
    /\ info' = NoInfo
    /\ EndCycle
    /\ UNCHANGED << cancelled, sentinel, cfg, session, lastWasLive, messageID,
                    hadSession, outstanding, lookup, clips, addressed >>
    /\ UNCHANGED metricVars
    /\ UNCHANGED << refreshedAt, removal, channel >>

(***************************************************************************)
(* getStreamInfo returns (nil, nil), the channel being offline:            *)
(* lastWasLive becomes false.  With a session the average and the maximum  *)
(* are computed and getRecentClips is called, on which the goroutine waits *)
(* again; without one nothing happens.                                     *)
(***************************************************************************)
PollOffline ==
    /\ pc = "query"
    /\ ~ChannelLive
    /\ channel' = Answered
    /\ polled' = "absent"
    /\ info' = NoInfo
    /\ lastWasLive' = FALSE
    /\ IF session # NoSession
          THEN /\ avgViewers' = calculateAverage(session.ViewerHistory)
               /\ maxViewers' = getMaxViewers(session.ViewerHistory)
               /\ pc' = "clips"
               /\ UNCHANGED retryVars
               /\ UNCHANGED << history, trend >>
          ELSE EndCycle /\ UNCHANGED metricVars
    /\ UNCHANGED << cancelled, sentinel, cfg, session, messageID, hadSession,
                    outstanding, lookup, clips, addressed >>
    /\ UNCHANGED << refreshedAt, removal >>

\* PollLive keeping only the latest sample
PollLiveTruncating ==
    /\ pc = "query"
    /\ ChannelLive
    /\ channel' = Answered
    /\ \E i \in StreamInfos :
          /\ info' = i
          /\ polled' = "present"
          /\ lastWasLive' = TRUE
          /\ IF session = NoSession
                THEN /\ session' = session
                     /\ pc' = "broadcaster"
                     /\ UNCHANGED retryVars
                     /\ UNCHANGED metricVars
                ELSE LET s == [session EXCEPT
                                 !.ViewerHistory = << i.Viewers >>,
                                 !.UpdateCounter = @ + 1]
                     IN /\ session' = s
                        /\ IF s.UpdateCounter >= checksPerUpdate \/ gameChanged(s, i)
                              THEN /\ avgViewers' = calculateAverage(s.ViewerHistory)
                                   /\ pc' = "clips"
                                   /\ UNCHANGED retryVars
                                   /\ UNCHANGED << history, maxViewers, trend >>
                              ELSE /\ UNCHANGED metricVars
                                   /\ EndCycle
    /\ UNCHANGED << cancelled, sentinel, cfg, messageID, hadSession, outstanding,
                    lookup, clips, addressed >>
    /\ UNCHANGED << refreshedAt, removal >>

\* PollLive refreshing the cached title on every poll
PollLiveCachingTitle ==
    /\ pc = "query"
    /\ ChannelLive
    /\ channel' = Answered
    /\ \E i \in StreamInfos :
          /\ info' = i
          /\ polled' = "present"
          /\ lastWasLive' = TRUE
          /\ IF session = NoSession
                THEN /\ session' = session
                     /\ pc' = "broadcaster"
                     /\ UNCHANGED retryVars
                     /\ UNCHANGED metricVars
                ELSE LET s == [session EXCEPT
                                 !.ViewerHistory = Append(@, i.Viewers),
                                 !.UpdateCounter = @ + 1,
                                 !.Title = i.Title]
                     IN /\ session' = s
                        /\ IF s.UpdateCounter >= checksPerUpdate \/ gameChanged(s, i)
                              THEN /\ avgViewers' = calculateAverage(s.ViewerHistory)
                                   /\ pc' = "clips"
                                   /\ UNCHANGED retryVars
                                   /\ UNCHANGED << history, maxViewers, trend >>
                              ELSE /\ UNCHANGED metricVars
                                   /\ EndCycle
    /\ UNCHANGED << cancelled, sentinel, cfg, messageID, hadSession, outstanding,
                    lookup, clips, addressed >>
    /\ UNCHANGED << refreshedAt, removal >>

\* PollLive refreshing one poll after the counter reached checksPerUpdate
PollLiveLateRefresh ==
    /\ pc = "query"
    /\ ChannelLive
    /\ channel' = Answered
    /\ \E i \in StreamInfos :
          /\ info' = i
          /\ polled' = "present"
          /\ lastWasLive' = TRUE
          /\ IF session = NoSession
                THEN /\ session' = session
                     /\ pc' = "broadcaster"
                     /\ UNCHANGED retryVars
                     /\ UNCHANGED metricVars
                ELSE LET s == [session EXCEPT
                                 !.ViewerHistory = Append(@, i.Viewers),
                                 !.UpdateCounter = @ + 1]
                     IN /\ session' = s
                        /\ IF s.UpdateCounter > checksPerUpdate \/ gameChanged(s, i)
                              THEN /\ avgViewers' = calculateAverage(s.ViewerHistory)
                                   /\ pc' = "clips"
                                   /\ UNCHANGED retryVars
                                   /\ UNCHANGED << history, maxViewers, trend >>
                              ELSE /\ UNCHANGED metricVars
                                   /\ EndCycle
    /\ UNCHANGED << cancelled, sentinel, cfg, messageID, hadSession, outstanding,
                    lookup, clips, addressed >>
    /\ UNCHANGED << refreshedAt, removal >>

(***************************************************************************)
(* getStreamInfo returns a stream, the channel being live: lastWasLive     *)
(* becomes true.  Without a session getBroadcasterID is called, on which   *)
(* the goroutine waits again.  With one the sample is appended and the     *)
(* poll counted, and when the counter reached checksPerUpdate or the game  *)
(* changed the average is computed and getRecentClips is called, another   *)
(* wait.                                                                   *)
(***************************************************************************)
PollLive ==
    /\ pc = "query"
    /\ ChannelLive
    /\ channel' = Answered
    /\ \E i \in StreamInfos :
          /\ info' = i
          /\ polled' = "present"
          /\ lastWasLive' = TRUE
          /\ IF session = NoSession
                THEN /\ session' = session
                     /\ pc' = "broadcaster"
                     /\ UNCHANGED retryVars
                     /\ UNCHANGED metricVars
                ELSE LET s == [session EXCEPT
                                 !.ViewerHistory = Append(@, i.Viewers),
                                 !.UpdateCounter = @ + 1]
                     IN /\ session' = s
                        /\ IF s.UpdateCounter >= checksPerUpdate \/ gameChanged(s, i)
                              THEN /\ avgViewers' = calculateAverage(s.ViewerHistory)
                                   /\ pc' = "clips"
                                   /\ UNCHANGED retryVars
                                   /\ UNCHANGED << history, maxViewers, trend >>
                              ELSE /\ UNCHANGED metricVars
                                   /\ EndCycle
    /\ UNCHANGED << cancelled, sentinel, cfg, messageID, hadSession, outstanding,
                    lookup, clips, addressed >>
    /\ UNCHANGED << refreshedAt, removal >>

\* GetBroadcasterID with the start notification sent although the lookup
\* failed
GetBroadcasterIDIgnored ==
    /\ pc = "broadcaster"
    /\ \E lookupOk \in BOOLEAN, p \in 0 .. MaxMonitorPlan :
          /\ lookup' = IF lookupOk THEN "ok" ELSE "err"
          /\ StartRetry("create", p)
    /\ UNCHANGED << cancelled, sentinel, cfg, session, lastWasLive, info,
                    messageID, polled, hadSession, outstanding, clips,
                    addressed >>
    /\ UNCHANGED metricVars
    /\ UNCHANGED << refreshedAt, removal, channel >>

(***************************************************************************)
(* getBroadcasterID returns: on an error the cycle ends (sleep, continue), *)
(* otherwise the start message is composed and sendPhotoMessage handed to  *)
(* retryWithBackoff.                                                       *)
(***************************************************************************)
GetBroadcasterID ==
    /\ pc = "broadcaster"
    /\ \E lookupOk \in BOOLEAN, p \in 0 .. MaxMonitorPlan :
          /\ lookup' = IF lookupOk THEN "ok" ELSE "err"
          /\ IF lookupOk THEN StartRetry("create", p) ELSE EndCycle
    /\ UNCHANGED << cancelled, sentinel, cfg, session, lastWasLive, info,
                    messageID, polled, hadSession, outstanding, clips,
                    addressed >>
    /\ UNCHANGED metricVars
    /\ UNCHANGED << refreshedAt, removal, channel >>

\* GetRecentClips ending the cycle when the lookup of the Live->Offline
\* branch fails
GetRecentClipsFatal ==
    /\ pc = "clips"
    /\ \E lookupOk \in BOOLEAN, list \in ClipLists, p \in 0 .. MaxMonitorPlan :
          /\ lookup' = IF lookupOk THEN "ok" ELSE "err"
          /\ clips' = RecentClips(lookupOk, list)
          /\ IF info # NoInfo
                THEN /\ trend' = IF info.Viewers > 0
                                    THEN viewerTrend(session.ViewerHistory, loc)
                                    ELSE ""
                     /\ StartRetry("update", p)
                ELSE /\ trend' = trend
                     /\ IF lookupOk THEN StartRetry("finalize", p) ELSE EndCycle
    /\ UNCHANGED << cancelled, sentinel, cfg, session, lastWasLive, info,
                    messageID, polled, hadSession, outstanding, addressed >>
    /\ UNCHANGED << history, avgViewers, maxViewers >>
    /\ UNCHANGED << refreshedAt, removal, channel >>

(***************************************************************************)
(* getRecentClips returns (its error is discarded): in the live branch the *)
(* update message is composed, which takes the trend when the snapshot has *)
(* viewers, and editPhotoMessage is handed to retryWithBackoff; in the     *)
(* Live->Offline branch the end message is composed and editMessageCaption *)
(* handed to retryWithBackoff.                                             *)
(***************************************************************************)
GetRecentClips ==
    /\ pc = "clips"
    /\ \E lookupOk \in BOOLEAN, list \in ClipLists, p \in 0 .. MaxMonitorPlan :
          /\ lookup' = IF lookupOk THEN "ok" ELSE "err"
          /\ clips' = RecentClips(lookupOk, list)
          /\ IF info # NoInfo
                THEN /\ trend' = IF info.Viewers > 0
                                    THEN viewerTrend(session.ViewerHistory, loc)
                                    ELSE ""
                     /\ StartRetry("update", p)
                ELSE /\ trend' = trend
                     /\ StartRetry("finalize", p)
    /\ UNCHANGED << cancelled, sentinel, cfg, session, lastWasLive, info,
                    messageID, polled, hadSession, outstanding, addressed >>
    /\ UNCHANGED << history, avgViewers, maxViewers >>
    /\ UNCHANGED << refreshedAt, removal, channel >>

\* RetryInvoke sending the edit for the local messageID instead of the
\* session's MessageID
RetryInvokeAddressesLocal ==
    /\ pc = "retry_call"
    /\ invocations' = Min(invocations + 1, MaxPlan + 1)
    /\ addressed' = IF opKind = "create" THEN NoHandle ELSE messageID
    /\ IF invocations + 1 = plan
          THEN /\ opOk' = "ok"
               /\ result' = "success"
               /\ pc' = "retry_ret"
               /\ \E h \in Handles :
                     /\ messageID' = IF opKind = "create" THEN h ELSE messageID
                     /\ outstanding' =
                           IF opKind = "create" THEN h
                           ELSE IF opKind = "finalize" /\ session # NoSession
                                   /\ session.MessageID = outstanding
                                THEN NoHandle ELSE outstanding
          ELSE /\ opOk' = "err"
               /\ result' = result
               /\ pc' = "retry_wait"
               /\ messageID' = IF opKind = "create" THEN 0 ELSE messageID
               /\ outstanding' =
                     IF opKind = "finalize" /\ session # NoSession
                        /\ session.MessageID = outstanding
                     THEN NoHandle ELSE outstanding
    /\ UNCHANGED << cancelled, sentinel, cfg, session, lastWasLive, info,
                    opKind, plan, idx, waits, polled, hadSession, lookup,
                    clips >>
    /\ UNCHANGED metricVars
    /\ UNCHANGED << refreshedAt, removal, channel >>

\* RetryInvoke with a maximum number of attempts: a failure after the
\* schedule is exhausted is returned to the caller
RetryInvokeGivesUp ==
    /\ pc = "retry_call"
    /\ invocations' = Min(invocations + 1, MaxPlan + 1)
    /\ addressed' = IF opKind = "create" THEN NoHandle ELSE session.MessageID
    /\ IF invocations + 1 = plan
          THEN /\ opOk' = "ok"
               /\ result' = "success"
               /\ pc' = "retry_ret"
               /\ \E h \in Handles :
                     /\ messageID' = IF opKind = "create" THEN h ELSE messageID
                     /\ outstanding' =
                           IF opKind = "create" THEN h
                           ELSE IF opKind = "finalize" /\ session # NoSession
                                   /\ session.MessageID = outstanding
                                THEN NoHandle ELSE outstanding
          ELSE /\ opOk' = "err"
               /\ result' = IF idx = Len(delays) THEN "failed" ELSE result
               /\ pc' = IF idx = Len(delays) THEN "retry_ret" ELSE "retry_wait"
               /\ messageID' = IF opKind = "create" THEN 0 ELSE messageID
               /\ outstanding' =
                     IF opKind = "finalize" /\ session # NoSession
                        /\ session.MessageID = outstanding
                     THEN NoHandle ELSE outstanding
    /\ UNCHANGED << cancelled, sentinel, cfg, session, lastWasLive, info,
                    opKind, plan, idx, waits, polled, hadSession, lookup,
                    clips >>
    /\ UNCHANGED metricVars
    /\ UNCHANGED << refreshedAt, removal, channel >>

(***************************************************************************)
(* retryWithBackoff: one invocation of the operation.  The create          *)
(* operation stores sendPhotoMessage's (id, err) in messageID: 0 with an   *)
(* error, the decoded message_id (possibly 0) without one.                 *)
(***************************************************************************)
RetryInvoke ==
    /\ pc = "retry_call"
    /\ invocations' = Min(invocations + 1, MaxPlan + 1)
    /\ addressed' = IF opKind = "create" THEN NoHandle ELSE session.MessageID
    /\ IF invocations + 1 = plan
          THEN /\ opOk' = "ok"
               /\ result' = "success"
               /\ pc' = "retry_ret"
               /\ \E h \in Handles :
                     /\ messageID' = IF opKind = "create" THEN h ELSE messageID
                     /\ outstanding' =
                           IF opKind = "create" THEN h
                           ELSE IF opKind = "finalize" /\ session # NoSession
                                   /\ session.MessageID = outstanding
                                THEN NoHandle ELSE outstanding
          ELSE /\ opOk' = "err"
               /\ result' = result
               /\ pc' = "retry_wait"
               /\ messageID' = IF opKind = "create" THEN 0 ELSE messageID
               /\ outstanding' =
                     IF opKind = "finalize" /\ session # NoSession
                        /\ session.MessageID = outstanding
                     THEN NoHandle ELSE outstanding
    /\ UNCHANGED << cancelled, sentinel, cfg, session, lastWasLive, info,
                    opKind, plan, idx, waits, polled, hadSession, lookup,
                    clips >>
    /\ UNCHANGED metricVars
    /\ UNCHANGED << refreshedAt, removal, channel >>

\* RetryTimer letting the timer win although ctx.Done() is already closed
RetryTimerRacy ==
    /\ pc = "retry_wait"
    /\ waits' = IF Len(waits) < MaxPlan
                   THEN Append(waits, CurrentDelay(idx)) ELSE waits
    /\ idx' = Min(idx + 1, Len(delays))
    /\ pc' = "retry_call"
    /\ UNCHANGED << cancelled, sentinel, cfg, session, lastWasLive, info,
                    messageID, opKind, plan, invocations, opOk, result, polled,
                    hadSession, outstanding, lookup, clips,
                    addressed >>
    /\ UNCHANGED metricVars
    /\ UNCHANGED << refreshedAt, removal, channel >>

(***************************************************************************)
(* retryWithBackoff: the select after a failed invocation.  time.After     *)
(* fires only if ctx.Done() has not been closed before it.                 *)
(***************************************************************************)
RetryTimer ==
    /\ pc = "retry_wait"
    /\ ~cancelled
    /\ waits' = IF Len(waits) < MaxPlan
                   THEN Append(waits, CurrentDelay(idx)) ELSE waits
    /\ idx' = Min(idx + 1, Len(delays))
    /\ pc' = "retry_call"
    /\ UNCHANGED << cancelled, sentinel, cfg, session, lastWasLive, info,
                    messageID, opKind, plan, invocations, opOk, result, polled,
                    hadSession, outstanding, lookup, clips,
                    addressed >>
    /\ UNCHANGED metricVars
    /\ UNCHANGED << refreshedAt, removal, channel >>

\* RetryCancelled with ctx.Done() consulted in the scheduled phase only
RetryCancelledScheduleOnly ==
    /\ pc = "retry_wait"
    /\ cancelled
    /\ idx < Len(delays)
    /\ result' = "cancelled"
    /\ pc' = "retry_ret"
    /\ UNCHANGED << cancelled, sentinel, cfg, session, lastWasLive, info,
                    messageID, opKind, plan, idx, invocations, waits, opOk,
                    polled, hadSession, outstanding, lookup, clips,
                    addressed >>
    /\ UNCHANGED metricVars
    /\ UNCHANGED << refreshedAt, removal, channel >>

\* case <-ctx.Done(): return ctx.Err()
RetryCancelled ==
    /\ pc = "retry_wait"
    /\ cancelled
    /\ result' = "cancelled"
    /\ pc' = "retry_ret"
    /\ UNCHANGED << cancelled, sentinel, cfg, session, lastWasLive, info,
                    messageID, opKind, plan, idx, invocations, waits, opOk,
                    polled, hadSession, outstanding, lookup, clips,
                    addressed >>
    /\ UNCHANGED metricVars
    /\ UNCHANGED << refreshedAt, removal, channel >>

(***************************************************************************)
(* monitorLoop after retryWithBackoff returned (its result is discarded).  *)
(***************************************************************************)
\* if messageID != 0 { session = &StreamSession{...} }
AfterCreate ==
    /\ pc = "retry_ret"
    /\ opKind = "create"
    /\ session' = IF messageID # 0 THEN NewSession(messageID, info) ELSE session
    /\ refreshedAt' = IF messageID # 0 THEN 1 ELSE refreshedAt
    /\ pc' = "sleep"
    /\ UNCHANGED << cancelled, sentinel, removal, channel, cfg, lastWasLive, info,
                    messageID,
                    retryVars, polled, hadSession, outstanding, lookup, clips,
                    addressed >>
    /\ UNCHANGED metricVars

\* AfterUpdate applying the refresh only when the edit was delivered
AfterUpdateOnSuccessOnly ==
    /\ pc = "retry_ret"
    /\ opKind = "update"
    /\ session' = IF result # "success" THEN session ELSE
                  [session EXCEPT !.UpdateCounter = 0,
                                  !.Game = info.Game,
                                  !.Title = info.Title,
                                  !.Tags = info.Tags]
    /\ pc' = "sleep"
    /\ refreshedAt' = Len(session.ViewerHistory)
    /\ UNCHANGED << cancelled, sentinel, removal, channel, cfg, lastWasLive, info,
                    messageID,
                    retryVars, polled, hadSession, outstanding, lookup, clips,
                    addressed >>
    /\ UNCHANGED metricVars

\* AfterUpdate resetting the counter only when the edit was delivered
AfterUpdateResetOnSuccess ==
    /\ pc = "retry_ret"
    /\ opKind = "update"
    /\ session' = [session EXCEPT
                     !.UpdateCounter = IF result = "success" THEN 0 ELSE @,
                     !.Game = info.Game,
                     !.Title = info.Title,
                     !.Tags = info.Tags]
    /\ pc' = "sleep"
    /\ refreshedAt' = Len(session.ViewerHistory)
    /\ UNCHANGED << cancelled, sentinel, removal, channel, cfg, lastWasLive, info,
                    messageID,
                    retryVars, polled, hadSession, outstanding, lookup, clips,
                    addressed >>
    /\ UNCHANGED metricVars

\* AfterUpdate dropping the session when the delivery was cancelled

AfterUpdateDroppingOnCancel ==
    /\ pc = "retry_ret"
    /\ opKind = "update"
    /\ session' = IF result = "cancelled" THEN NoSession ELSE
                  [session EXCEPT !.UpdateCounter = 0,
                                  !.Game = info.Game,
                                  !.Title = info.Title,
                                  !.Tags = info.Tags]
    /\ pc' = "sleep"
    /\ refreshedAt' = Len(session.ViewerHistory)
    /\ UNCHANGED << cancelled, sentinel, removal, channel, cfg, lastWasLive, info,
                    messageID,
                    retryVars, polled, hadSession, outstanding, lookup, clips,
                    addressed >>
    /\ UNCHANGED metricVars

\* session.UpdateCounter = 0; session.Game, Title, Tags = info's
AfterUpdate ==
    /\ pc = "retry_ret"
    /\ opKind = "update"
    /\ session' = [session EXCEPT !.UpdateCounter = 0,
                                  !.Game = info.Game,
                                  !.Title = info.Title,
                                  !.Tags = info.Tags]
    /\ pc' = "sleep"
    /\ refreshedAt' = Len(session.ViewerHistory)
    /\ UNCHANGED << cancelled, sentinel, removal, channel, cfg, lastWasLive, info,
                    messageID,
                    retryVars, polled, hadSession, outstanding, lookup, clips,
                    addressed >>
    /\ UNCHANGED metricVars

\* AfterFinalize keeping the session when the delivery was cancelled
AfterFinalizeOnSuccessOnly ==
    /\ pc = "retry_ret"
    /\ opKind = "finalize"
    /\ session' = IF result = "success" THEN NoSession ELSE session
    /\ pc' = "sleep"
    /\ refreshedAt' = 0
    /\ UNCHANGED << cancelled, sentinel, removal, channel, cfg, lastWasLive, info,
                    messageID,
                    retryVars, polled, hadSession, outstanding, lookup, clips,
                    addressed >>
    /\ UNCHANGED metricVars

\* AfterFinalize without the assignment session = nil

AfterFinalizeKeepingSession ==
    /\ pc = "retry_ret"
    /\ opKind = "finalize"
    /\ session' = session
    /\ pc' = "sleep"
    /\ refreshedAt' = refreshedAt
    /\ UNCHANGED << cancelled, sentinel, removal, channel, cfg, lastWasLive, info,
                    messageID,
                    retryVars, polled, hadSession, outstanding, lookup, clips,
                    addressed >>
    /\ UNCHANGED metricVars

\* session = nil
AfterFinalize ==
    /\ pc = "retry_ret"
    /\ opKind = "finalize"
    /\ session' = NoSession
    /\ pc' = "sleep"
    /\ refreshedAt' = 0
    /\ UNCHANGED << cancelled, sentinel, removal, channel, cfg, lastWasLive, info,
                    messageID,
                    retryVars, polled, hadSession, outstanding, lookup, clips,
                    addressed >>
    /\ UNCHANGED metricVars

(***************************************************************************)
(* sleep(ctx, CheckInterval): returns on the timer or on ctx.Done(); the   *)
(* next iteration declares its locals afresh.                              *)
(***************************************************************************)
Sleep ==
    /\ pc = "sleep"
    /\ pc' = "top"
    /\ info' = NoInfo
    /\ messageID' = 0
    /\ opKind' = "none"
    /\ plan' = 0
    /\ idx' = 0
    /\ invocations' = 0
    /\ waits' = << >>
    /\ opOk' = "none"
    /\ result' = "none"
    /\ polled' = "none"
    /\ hadSession' = FALSE
    /\ lookup' = "none"
    /\ clips' = << >>
    /\ addressed' = NoHandle
    /\ history' = << >>
    /\ avgViewers' = 0
    /\ maxViewers' = 0
    /\ trend' = ""
    /\ removal' = "none"
    /\ UNCHANGED << cancelled, sentinel, cfg, session, lastWasLive, outstanding >>
    /\ UNCHANGED << refreshedAt, channel >>

(***************************************************************************)
(* Environment: SIGINT/SIGTERM closes ctx.Done(); somebody creates the     *)
(* file simulate_end.                                                      *)
(***************************************************************************)
Cancel ==
    /\ ~cancelled
    /\ pc # "stopped"
    /\ cancelled' = TRUE
    /\ UNCHANGED << pc, sentinel, cfg, session, lastWasLive, info, messageID,
                    retryVars, polled, hadSession, outstanding, lookup, clips,
                    addressed >>
    /\ UNCHANGED metricVars
    /\ UNCHANGED << refreshedAt, removal, channel >>

SentinelCreate ==
    /\ ~sentinel
    /\ pc # "stopped"
    /\ sentinel' = TRUE
    /\ UNCHANGED << pc, cancelled, cfg, session, lastWasLive, info, messageID,
                    retryVars, polled, hadSession, outstanding, lookup, clips,
                    addressed >>
    /\ UNCHANGED metricVars
    /\ UNCHANGED << refreshedAt, removal, channel >>

Next ==
    \/ Stop
    \/ PollSentinel
    \/ QueryStatus
    \/ PollError
    \/ PollOffline
    \/ PollLive
    \/ GetBroadcasterID
    \/ GetRecentClips
    \/ RetryInvoke
    \/ RetryTimer
    \/ RetryCancelled
    \/ AfterCreate
    \/ AfterUpdate
    \/ AfterFinalize
    \/ Sleep
    \/ Cancel
    \/ SentinelCreate

Spec == Init /\ [][Next]_vars

(***************************************************************************)
(* monitorLoop under one configuration and without the debug file, for the *)
(* properties that need fairness: the goroutine is scheduled, timers fire  *)
(* and collaborator calls return.                                          *)
(***************************************************************************)
FairInit ==
    /\ Init
    /\ cfg = [CheckInterval |-> 60, UpdateInterval |-> 1]
    /\ sentinel = FALSE

FairNext ==
    \/ Stop
    \/ QueryStatus
    \/ PollError
    \/ PollOffline
    \/ PollLive
    \/ GetBroadcasterID
    \/ GetRecentClips
    \/ RetryInvoke
    \/ RetryTimer
    \/ RetryCancelled
    \/ AfterCreate
    \/ AfterUpdate
    \/ AfterFinalize
    \/ Sleep
    \/ Cancel

FairSpec ==
    /\ FairInit /\ [][FairNext]_vars
    /\ WF_vars(Stop)
    /\ WF_vars(QueryStatus)
    /\ WF_vars(PollError \/ PollOffline \/ PollLive)
    /\ WF_vars(GetBroadcasterID)
    /\ WF_vars(GetRecentClips)
    /\ WF_vars(RetryInvoke)
    /\ WF_vars(RetryTimer)
    /\ WF_vars(RetryCancelled)
    /\ WF_vars(AfterCreate \/ AfterUpdate \/ AfterFinalize)
    /\ WF_vars(Sleep)

(***************************************************************************)
(* monitorLoop followed through one broadcast: under any configuration,    *)
(* the default one included, and without the debug file, the channel is    *)
(* live at the first answers, up to MaxBroadcast of them, and offline from *)
(* then on, with the same number of viewers in every snapshot.  Games and  *)
(* titles, failed queries, lookups, clips, message ids, the outcomes of    *)
(* the deliveries and the shutdown signal vary as in Spec.                 *)
(***************************************************************************)
SessionInit ==
    /\ Started
    /\ cfg \in Configs \cup {DefaultConfig}
    /\ sentinel = FALSE
    /\ \E n \in 0 .. MaxBroadcast : channel = [k \in 1 .. n |-> "live"]

\* every snapshot of the broadcast reports the same audience
SteadyAudience == info'.Viewers = 2

SessionNext ==
    \/ Stop
    \/ QueryStatus
    \/ PollError
    \/ PollOffline
    \/ PollLive /\ SteadyAudience
    \/ GetBroadcasterID
    \/ GetRecentClips
    \/ RetryInvoke
    \/ RetryTimer
    \/ RetryCancelled
    \/ AfterCreate
    \/ AfterUpdate
    \/ AfterFinalize
    \/ Sleep
    \/ Cancel

SessionSpec == SessionInit /\ [][SessionNext]_vars

(***************************************************************************)
(* retryWithBackoff called on its own: any of the three operations, with   *)
(* an operation that succeeds on its plan-th invocation (0: never).        *)
(***************************************************************************)
RetryInit ==
    /\ pc = "retry_call"
    /\ cancelled \in BOOLEAN
    /\ sentinel = FALSE
    /\ cfg = [CheckInterval |-> 60, UpdateInterval |-> 1]
    /\ opKind \in {"create", "update", "finalize"}
    /\ plan \in 0 .. MaxPlan
    /\ info = IF opKind = "finalize" THEN NoInfo
              ELSE [Game |-> "g1", Title |-> "t1", Tags |-> <<"x">>, Viewers |-> 2]
    /\ session = IF opKind = "create" THEN NoSession
                 ELSE [NewSession(1, [Game |-> "g1", Title |-> "t1",
                                      Tags |-> <<"x">>, Viewers |-> 2])
                         EXCEPT !.ViewerHistory = <<2, 2>>, !.UpdateCounter = 1]
    /\ lastWasLive = (opKind # "finalize")
    /\ messageID = 0
    /\ idx = 0
    /\ invocations = 0
    /\ waits = << >>
    /\ opOk = "none"
    /\ result = "none"
    /\ polled = IF opKind = "finalize" THEN "absent" ELSE "present"
    /\ hadSession = (opKind # "create")
    /\ outstanding = IF opKind = "create" THEN NoHandle ELSE 1
    /\ lookup = "ok"
    /\ clips = << >>
    /\ addressed = NoHandle
    /\ history = << >>
    /\ avgViewers = IF opKind = "create" THEN 0 ELSE 2
    /\ maxViewers = IF opKind = "finalize" THEN 2 ELSE 0
    /\ trend = ""
    /\ refreshedAt = IF opKind = "create" THEN 0 ELSE 1
    /\ removal = "none"
    /\ channel = << >>

RetryNext ==
    \/ RetryInvoke
    \/ RetryTimer
    \/ RetryCancelled
    \/ Cancel

RetrySpec == RetryInit /\ [][RetryNext]_vars

\* the goroutine is scheduled and timers fire
FairRetrySpec ==
    /\ RetrySpec
    /\ WF_vars(RetryInvoke)
    /\ WF_vars(RetryTimer)
    /\ WF_vars(RetryCancelled)

(***************************************************************************)
(* The aggregation functions applied on their own to any history: the      *)
(* average, then the maximum, then the trend.                              *)
(***************************************************************************)
MetricsInit ==
    /\ pc = "avg"
    /\ history \in Histories
    /\ cancelled = FALSE
    /\ sentinel = FALSE
    /\ cfg = [CheckInterval |-> 60, UpdateInterval |-> 1]
    /\ session = NoSession
    /\ lastWasLive = FALSE
    /\ info = NoInfo
    /\ messageID = 0
    /\ opKind = "none"
    /\ plan = 0
    /\ idx = 0
    /\ invocations = 0
    /\ waits = << >>
    /\ opOk = "none"
    /\ result = "none"
    /\ polled = "none"
    /\ hadSession = FALSE
    /\ outstanding = NoHandle
    /\ lookup = "none"
    /\ clips = << >>
    /\ addressed = NoHandle
    /\ avgViewers = 0
    /\ maxViewers = 0
    /\ trend = ""
    /\ refreshedAt = 0
    /\ removal = "none"
    /\ channel = << >>

ApplyAverage ==
    /\ pc = "avg"
    /\ avgViewers' = calculateAverage(history)
    /\ pc' = "max"
    /\ UNCHANGED << cancelled, sentinel, cfg, session, lastWasLive, info,
                    messageID, retryVars, polled, hadSession, outstanding,
                    lookup, clips, addressed, history, maxViewers, trend,
                    refreshedAt, removal, channel >>

ApplyMax ==
    /\ pc = "max"
    /\ maxViewers' = getMaxViewers(history)
    /\ pc' = "trend"
    /\ UNCHANGED << cancelled, sentinel, cfg, session, lastWasLive, info,
                    messageID, retryVars, polled, hadSession, outstanding,
                    lookup, clips, addressed, history, avgViewers, trend,
                    refreshedAt, removal, channel >>

ApplyTrend ==
    /\ pc = "trend"
    /\ trend' = viewerTrend(history, loc)
    /\ pc' = "aggregated"
    /\ UNCHANGED << cancelled, sentinel, cfg, session, lastWasLive, info,
                    messageID, retryVars, polled, hadSession, outstanding,
                    lookup, clips, addressed, history, avgViewers, maxViewers,
                    refreshedAt, removal, channel >>

MetricsNext ==
    \/ ApplyAverage
    \/ ApplyMax
    \/ ApplyTrend

MetricsSpec == MetricsInit /\ [][MetricsNext]_vars

\* the cycle has run to its final sleep
CycleEnd == pc = "sleep"

(***************************************************************************)
(* Claims.                                                                 *)
(***************************************************************************)

\* C1: a cycle with a present snapshot and no session that ends with a
\* session leaves a history of exactly one entry, the snapshot's viewer
\* count, and an update counter of 0.
C1_OfflineToLiveSeedsSession ==
    (CycleEnd /\ polled = "present" /\ ~hadSession /\ session # NoSession) =>
        /\ Len(session.ViewerHistory) = 1
        /\ session.ViewerHistory[1] = info.Viewers
        /\ session.UpdateCounter = 0

C1_Witness ==
    /\ CycleEnd /\ polled = "present" /\ ~hadSession /\ session # NoSession
    /\ info.Viewers = 2
    /\ invocations = 2

\* C2: a cycle whose status query succeeded with no stream while a session
\* existed ends with no session, whether the finalize delivery succeeded or
\* retryWithBackoff returned through cancellation.
C2_LiveToOfflineDiscardsSession ==
    (CycleEnd /\ polled = "absent" /\ hadSession) =>
        /\ session = NoSession
        /\ opKind = "finalize"
        /\ result \in {"success", "cancelled"}

C2_Witness ==
    /\ CycleEnd /\ polled = "absent" /\ hadSession
    /\ result = "cancelled"
    /\ session = NoSession

\* C3: a cycle that finds the sentinel file while a session exists takes
\* the Live->Offline transition: the finalize action is delivered through
\* retryWithBackoff and the session is absent at the end of the cycle (the
\* third part, the sentinel's deletion, is PollSentinel's call of os.Remove).
C3_SentinelEndsSession ==
    (CycleEnd /\ polled = "sentinel" /\ hadSession) =>
        /\ opKind = "finalize"
        /\ invocations >= 1
        /\ session = NoSession

\* C4: one notification per session: the create operation is invoked only
\* in a cycle that started without a session, and a create succeeds only
\* when every earlier successful create has been followed by a finalize
\* invocation for the handle it returned.
C4_OneNotificationPerSession ==
    [][ (pc = "retry_call" /\ opKind = "create") =>
            /\ ~hadSession
            /\ session = NoSession
            /\ (result' = "success" => outstanding = NoHandle) ]_vars

\* C5: in an Offline->Live attempt, a create delivery that returned success
\* leaves a session holding the returned handle at the end of the cycle;
\* the attempt ends without a session only when retryWithBackoff returned
\* through cancellation.
C5_CreateSuccessYieldsSession ==
    (CycleEnd /\ opKind = "create") =>
        /\ result = "success" =>
              (session # NoSession /\ session.MessageID = messageID)
        /\ session = NoSession => result = "cancelled"

\* C6: an operation that succeeds on its k-th invocation is invoked exactly
\* k times; the i-th wait is the i-th of 1, 3, 5, 10, 15, 30, 45, 60 seconds
\* for i <= 8 and 60 seconds after that; for k = 4 the waits add up to 9.
C6_BackoffSchedule ==
    /\ \A i \in 1 .. Len(waits) :
          waits[i] = IF i <= 8 THEN <<1, 3, 5, 10, 15, 30, 45, 60>>[i] ELSE 60
    /\ (pc = "retry_ret" /\ result = "success") =>
          /\ invocations = plan
          /\ Len(waits) = plan - 1
          /\ plan = 4 => waits[1] + waits[2] + waits[3] = 9

C6_Witness ==
    /\ pc = "retry_ret" /\ result = "success"
    /\ plan = MaxPlan /\ invocations = MaxPlan
    /\ Len(waits) > Len(delays)

\* C7: with the cancellation signal raised during a wait between attempts,
\* retryWithBackoff's next step is to return the cancellation outcome, and
\* the operation is not invoked again.
C7_CancelDuringWait ==
    [][ (pc = "retry_wait" /\ cancelled) =>
            /\ pc' = "retry_ret"
            /\ result' = "cancelled"
            /\ invocations' = invocations ]_vars

C7_Witness ==
    /\ pc = "retry_ret" /\ result = "cancelled"
    /\ idx = Len(delays) /\ invocations = Len(delays) + 2

\* C8: retryWithBackoff returns only success or cancellation; it has
\* returned success exactly when an invocation succeeded, with nothing
\* between that invocation and the return, and a cancellation outcome means
\* the signal was raised, never that attempts ran out.
C8_SuccessOrCancelled ==
    /\ pc = "retry_ret" => result \in {"success", "cancelled"}
    /\ opOk = "ok" <=> (pc = "retry_ret" /\ result = "success")
    /\ opOk = "ok" => Len(waits) = invocations - 1
    /\ (pc = "retry_ret" /\ result = "cancelled") => (cancelled /\ opOk = "err")

C8_Witness ==
    /\ pc = "retry_ret" /\ result = "success" /\ opOk = "ok"
    /\ invocations = Len(delays) + 1
    /\ ~cancelled

\* C9: under fair scheduling a call of retryWithBackoff returns if the
\* operation succeeds on some invocation or the cancellation signal is
\* raised; while the operation never succeeds and the signal is not raised
\* the call has not returned.
C9_RetryTermination ==
    /\ (plan # 0) ~> (pc = "retry_ret")
    /\ cancelled ~> (pc = "retry_ret")
    /\ []((plan = 0 /\ ~cancelled) => pc # "retry_ret")

C9_Witness ==
    /\ pc = "retry_ret" /\ result = "cancelled"
    /\ plan = 0
    /\ invocations = Len(delays) + 3

\* C10 as claimed: the update counter is never negative and, right after a
\* refresh, lies in [0, checksPerUpdate).
C10_CounterBelowThreshold ==
    /\ session # NoSession => session.UpdateCounter >= 0
    /\ (CycleEnd /\ opKind = "update") =>
          session.UpdateCounter \in 0 .. (checksPerUpdate - 1)

\* C10 as amended: the update counter is never negative and, right after a
\* refresh, lies in [0, max(1, checksPerUpdate)).
C10_CounterAfterRefresh ==
    /\ session # NoSession => session.UpdateCounter >= 0
    /\ (CycleEnd /\ opKind = "update") =>
          session.UpdateCounter \in
              0 .. ((IF checksPerUpdate > 1 THEN checksPerUpdate ELSE 1) - 1)

C10_Witness ==
    /\ CycleEnd /\ opKind = "update"
    /\ checksPerUpdate = 3
    /\ Len(session.ViewerHistory) = 4
    /\ result = "cancelled"
    /\ session.UpdateCounter = 0

\* C11: while a session exists its viewer history is non-empty, and every
\* step within one session leaves the previous history as a prefix of the
\* new one.
C11_HistoryAppendOnly ==
    /\ [](session # NoSession => Len(session.ViewerHistory) >= 1)
    /\ [][ (session # NoSession /\ session' # NoSession) =>
              /\ Len(session'.ViewerHistory) >= Len(session.ViewerHistory)
              /\ SubSeq(session'.ViewerHistory, 1, Len(session.ViewerHistory))
                    = session.ViewerHistory ]_vars

C11_Witness ==
    /\ session # NoSession
    /\ Len(session.ViewerHistory) = MaxAnswers
    /\ session.ViewerHistory[1] # session.ViewerHistory[2]
    /\ session.UpdateCounter = 0

\* C12: from its creation until it is discarded a session keeps its
\* MessageID, which is the handle its create operation returned, and every
\* update and finalize invocation is sent for that handle.
C12_HandleImmutable ==
    /\ [][ (session # NoSession /\ session' # NoSession) =>
              session'.MessageID = session.MessageID ]_vars
    /\ []( (session # NoSession /\ ~(opKind = "finalize" /\ invocations >= 1))
              => session.MessageID = outstanding )
    /\ []( (opKind \in {"update", "finalize"} /\ invocations >= 1
            /\ session # NoSession) => addressed = session.MessageID )
    /\ []( (opKind = "finalize" /\ invocations >= 1) => outstanding = NoHandle )

C12_Witness ==
    /\ pc = "retry_ret" /\ opKind = "finalize" /\ invocations = 2
    /\ addressed = MaxHandle /\ session # NoSession
    /\ session.MessageID = MaxHandle
    /\ Len(session.ViewerHistory) >= 2

\* C13: a failed status query ends the cycle with no transition: the
\* session is left as it was, no notification operation is handed to
\* retryWithBackoff, and the loop returns to its top for the next query.
C13_StatusErrorNoTransition ==
    /\ [][ (pc = "query" /\ polled' = "error") =>
              /\ session' = session
              /\ lastWasLive' = lastWasLive
              /\ pc' = "sleep"
              /\ opKind' = "none"
              /\ invocations' = 0 ]_vars
    /\ []( (CycleEnd /\ polled = "error") =>
              /\ opKind = "none"
              /\ invocations = 0
              /\ hadSession <=> session # NoSession )
    /\ [][ (pc = "sleep" /\ polled = "error" /\ pc' # pc) =>
              (pc' = "top" /\ session' = session) ]_vars

C13_Witness ==
    /\ CycleEnd /\ polled = "error" /\ hadSession
    /\ session # NoSession
    /\ session.UpdateCounter >= 1

\* C14: with a snapshot present and no session, a failed broadcaster lookup
\* ends the cycle without a create operation and without a session; every
\* cycle that finds a snapshot and no session makes the lookup again and,
\* when it succeeds, hands the create operation to retryWithBackoff.
C14_LookupFailureNoCreate ==
    /\ [][ (pc = "query" /\ polled' = "present" /\ session = NoSession) =>
              (pc' = "broadcaster" /\ opKind' = "none" /\ session' = NoSession) ]_vars
    /\ [][ (pc = "broadcaster" /\ pc' # pc) =>
              /\ lookup' \in {"ok", "err"}
              /\ lookup' = "err" =>
                    (pc' = "sleep" /\ opKind' = "none" /\ session' = NoSession)
              /\ lookup' = "ok" =>
                    (pc' = "retry_call" /\ opKind' = "create") ]_vars
    /\ []( (CycleEnd /\ polled = "present" /\ ~hadSession /\ lookup = "err") =>
              (session = NoSession /\ opKind = "none" /\ invocations = 0) )

C14_Witness ==
    /\ CycleEnd /\ polled = "present" /\ ~hadSession /\ lookup = "err"
    /\ outstanding = NoHandle
    /\ session = NoSession

\* C15: a failed clips lookup in a refresh or in the Live->Offline
\* transition does not end the cycle: the message gets an empty clip list,
\* the operation is still invoked through retryWithBackoff, and the counter
\* and cached fields are reset, or the session discarded, all the same.
C15_ClipsFailureTolerated ==
    /\ [][ (pc = "clips" /\ lookup' = "err") =>
              /\ pc' = "retry_call"
              /\ opKind' \in {"update", "finalize"}
              /\ clips' = << >> ]_vars
    /\ []( (CycleEnd /\ hadSession /\ lookup = "err") =>
              /\ opKind \in {"update", "finalize"}
              /\ invocations >= 1
              /\ clips = << >>
              /\ opKind = "update" =>
                    /\ session.UpdateCounter = 0
                    /\ session.Game = info.Game
                    /\ session.Title = info.Title
                    /\ session.Tags = info.Tags
              /\ opKind = "finalize" => session = NoSession )

\* a refresh whose clips lookup failed, delivered at a retry
C15_Witness ==
    /\ CycleEnd /\ hadSession /\ lookup = "err"
    /\ opKind = "update" /\ result = "success" /\ invocations = 2
    /\ clips = << >>
    /\ session # NoSession /\ session.UpdateCounter = 0
    /\ Len(session.ViewerHistory) >= 2

\* C16: in a cycle with a snapshot and a session the sample is appended and
\* the counter incremented, and the update operation is handed to
\* retryWithBackoff exactly when the counter has then reached
\* checksPerUpdate or the snapshot's game differs from a non-empty cached
\* game.
C16_RefreshCondition ==
    /\ [][ (pc = "query" /\ polled' = "present" /\ session # NoSession) =>
              /\ session'.UpdateCounter = session.UpdateCounter + 1
              /\ pc' = "clips" <=>
                    \/ session'.UpdateCounter >= checksPerUpdate
                    \/ (info'.Game # session.Game /\ session.Game # "")
              /\ pc' \in {"clips", "sleep"} ]_vars
    /\ [][ (pc = "clips" /\ polled = "present" /\ pc' # pc) =>
              (pc' = "retry_call" /\ opKind' = "update") ]_vars
    /\ []( (opKind = "update" /\ pc # "top") => (polled = "present" /\ hadSession) )

C16_Witness ==
    /\ CycleEnd /\ polled = "present" /\ hadSession
    /\ opKind = "none"
    /\ session.Game = "" /\ info.Game = "g1"

\* C17: every refresh ends with the update counter at 0 and the cached
\* game, title and tags equal to the snapshot's, whether the delivery
\* succeeded or retryWithBackoff returned through cancellation.
C17_RefreshResetsCache ==
    (CycleEnd /\ opKind = "update") =>
        /\ result \in {"success", "cancelled"}
        /\ session.UpdateCounter = 0
        /\ session.Game = info.Game
        /\ session.Title = info.Title
        /\ session.Tags = info.Tags

C17_Witness ==
    /\ CycleEnd /\ opKind = "update" /\ result = "cancelled"
    /\ session.Game = "g2" /\ info.Game = "g2"
    /\ Len(session.ViewerHistory) = 2

\* C18: once the cancellation signal is raised, no notification operation
\* that had not been invoked before is invoked for the first time.
C18_NoNewActionAfterCancel ==
    [][ (cancelled /\ invocations = 0) => invocations' = 0 ]_vars

\* C19: monitorLoop returns only at the top of the loop with the
\* cancellation signal raised; whatever failed in a cycle, the sleep ends
\* at the top of the loop, where without cancellation the next poll is
\* made, and a failed delivery without cancellation is retried.
C19_OnlyCancellationStops ==
    /\ [](pc = "stopped" => cancelled)
    /\ [][ /\ (pc' = "stopped" /\ pc # "stopped") => (pc = "top" /\ cancelled)
           /\ (pc = "sleep" /\ pc' # pc) => pc' = "top"
           /\ (pc = "top" /\ ~cancelled /\ pc' # pc) =>
                 (pc' = "query" \/ (pc' = "sleep" /\ polled' = "sentinel"))
           /\ (pc = "query" /\ pc' # pc) =>
                 (polled' # "none" /\ pc' \in {"broadcaster", "clips", "sleep"})
           /\ (pc \in {"broadcaster", "clips"} /\ pc' # pc) =>
                 pc' \in {"retry_call", "sleep"}
           /\ (pc = "retry_wait" /\ ~cancelled /\ pc' # pc) =>
                 pc' = "retry_call" ]_vars

C19_Witness ==
    /\ pc = "retry_call" /\ ~cancelled
    /\ opOk = "err" /\ lookup = "err"
    /\ invocations > Len(delays)

\* C20: while a delivery is in retryWithBackoff (invoking, waiting or
\* returning) no status query is made and no viewer sample is recorded.
C20_CyclesDoNotOverlap ==
    [][ (pc \in {"retry_call", "retry_wait", "retry_ret"}) =>
           /\ polled' = polled
           /\ info' = info
           /\ hadSession' = hadSession
           /\ (session # NoSession /\ session' # NoSession) =>
                 (session'.ViewerHistory = session.ViewerHistory) ]_vars

C20_Witness ==
    /\ pc = "retry_wait" /\ idx = Len(delays)
    /\ polled = "present" /\ hadSession
    /\ opKind = "update"

\* C21: viewerTrend returns no label for a history of fewer than 4
\* samples; otherwise, with mid = length div 2 and a positive mean of the
\* first mid counts, it returns Growing when the mean of the remaining
\* counts exceeds the early mean by more than 7 %, Dropping when it falls
\* short of it by more than 7 %, and Steady otherwise.
C21_TrendClassification ==
    pc = "aggregated" =>
        LET n    == Len(history)
            mid  == n \div 2
            S[k \in 0 .. n] == IF k = 0 THEN 0 ELSE S[k - 1] + history[k]
            E    == S[mid]
            L    == S[n] - S[mid]
        IN  /\ n < 4 => trend = ""
            /\ (n >= 4 /\ E > 0) =>
                  trend = IF 100 * mid * L > 107 * (n - mid) * E THEN "growing"
                          ELSE IF 100 * mid * L < 93 * (n - mid) * E THEN "dropping"
                          ELSE "steady"

\* C22: calculateAverage returns 0 for the empty history and otherwise the
\* quotient of the sum of the counts by their number, truncated toward zero.
C22_AverageTruncates ==
    pc = "aggregated" =>
        LET n == Len(history)
            S[k \in 0 .. n] == IF k = 0 THEN 0 ELSE S[k - 1] + history[k]
        IN  /\ n = 0 => avgViewers = 0
            /\ n > 0 => /\ avgViewers * n <= S[n]
                        /\ S[n] < (avgViewers + 1) * n

C22_Witness ==
    /\ pc = "aggregated"
    /\ history = << 34, 34, 33 >>
    /\ avgViewers = 33

\* C23: getMaxViewers returns 0 for the empty history and otherwise the
\* largest count of the history, and exchanging any two samples (hence any
\* permutation) leaves the result the same.
C23_MaxOrderIndependent ==
    pc = "aggregated" =>
        LET n == Len(history)
        IN  /\ n = 0 => maxViewers = 0
            /\ n > 0 => /\ \E k \in 1 .. n : history[k] = maxViewers
                        /\ \A k \in 1 .. n : history[k] <= maxViewers
            /\ \A i, j \in 1 .. n :
                  getMaxViewers([history EXCEPT ![i] = history[j],
                                                ![j] = history[i]]) = maxViewers

C23_Witness ==
    /\ pc = "aggregated"
    /\ history = << 0, 33, 34, 34, 31 >>
    /\ maxViewers = 34

\* C30: for a history of at least 4 samples whose early half is all zero,
\* viewerTrend returns Growing when the late half has a positive mean and
\* Steady when the late half is all zero as well.
C30_ZeroEarlyMean ==
    (pc = "aggregated" /\ Len(history) >= 4
        /\ \A k \in 1 .. (Len(history) \div 2) : history[k] = 0) =>
            trend = IF \E k \in 1 .. Len(history) : history[k] > 0
                       THEN "growing" ELSE "steady"

C30_Witness ==
    /\ pc = "aggregated"
    /\ history = << 0, 0, 0, 0, 31 >>
    /\ trend = "growing"

\* C24: a poll with a snapshot and a session that neither brings the
\* counter to checksPerUpdate nor finds the game changed appends exactly the
\* snapshot's viewer count, adds 1 to the counter, hands no operation to
\* retryWithBackoff, and leaves MessageID, StartTime, BroadcasterID and the
\* cached Game, Title and Tags as they were.
C24_NoRefreshFrame ==
    [][ (/\ pc = "query" /\ polled' = "present" /\ session # NoSession
         /\ session.UpdateCounter + 1 < checksPerUpdate
         /\ ~(info'.Game # session.Game /\ session.Game # "")) =>
            /\ session'.ViewerHistory =
                  Append(session.ViewerHistory, info'.Viewers)
            /\ session'.UpdateCounter = session.UpdateCounter + 1
            /\ pc' = "sleep"
            /\ opKind' = "none"
            /\ invocations' = 0
            /\ session'.MessageID = session.MessageID
            /\ session'.StartTime = session.StartTime
            /\ session'.BroadcasterID = session.BroadcasterID
            /\ session'.Game = session.Game
            /\ session'.Title = session.Title
            /\ session'.Tags = session.Tags ]_vars

C24_Witness ==
    /\ CycleEnd /\ polled = "present" /\ hadSession
    /\ opKind = "none"
    /\ session.UpdateCounter = 2
    /\ session.ViewerHistory[3] = 2
    /\ info.Title # session.Title

\* C26: an existing session becomes absent only after the finalize
\* delivery of a cycle whose status query returned no stream and no error;
\* a cycle that had a session and polled a stream, failed its status query
\* or found the sentinel file ends with the session still there, whatever
\* became of an update delivery.
C26_DiscardOnlyWhenOffline ==
    /\ [][ (session # NoSession /\ session' = NoSession) =>
              (pc = "retry_ret" /\ polled = "absent" /\ opKind = "finalize") ]_vars
    /\ []( (CycleEnd /\ hadSession /\ polled \in {"present", "error", "sentinel"})
              => session # NoSession )

C26_Witness ==
    /\ CycleEnd /\ hadSession /\ polled = "present"
    /\ opKind = "update" /\ result = "cancelled"
    /\ invocations = MaxMonitorPlan
    /\ session # NoSession

\* C27: the update counter is the number of live polls since the session
\* was created or last refreshed; a poll that finds no game change
\* refreshes exactly when that number is max(1, checksPerUpdate), which it
\* never exceeds, and every refresh, also one made for a game change,
\* starts the count again at 0.
C27_RefreshCadence ==
    /\ []( session # NoSession =>
              session.UpdateCounter = Len(session.ViewerHistory) - refreshedAt )
    /\ [][ (/\ pc = "query" /\ polled' = "present" /\ session # NoSession
             /\ ~(info'.Game # session.Game /\ session.Game # "")) =>
               /\ pc' = "clips" <=>
                     (Len(session'.ViewerHistory) - refreshedAt =
                        IF checksPerUpdate > 1 THEN checksPerUpdate ELSE 1)
               /\ Len(session'.ViewerHistory) - refreshedAt <=
                     IF checksPerUpdate > 1 THEN checksPerUpdate ELSE 1 ]_vars
    /\ []( (CycleEnd /\ opKind = "update") =>
              (refreshedAt = Len(session.ViewerHistory)
                 /\ session.UpdateCounter = 0) )

\* the second refresh of a session under the default configuration: the
\* sixth sample brought the first refresh, the eleventh brings this one
C27_Witness ==
    /\ pc = "retry_call" /\ opKind = "update" /\ invocations = 0
    /\ cfg = DefaultConfig
    /\ refreshedAt = 6
    /\ Len(session.ViewerHistory) = 11
    /\ session.Game = info.Game

\* C29: a cycle that starts with the file simulate_end present
\* removes it and makes no status query, with or without a session; without
\* a session it goes on as after an offline answer: lastWasLive is false, no
\* session appears and no operation is handed to retryWithBackoff.
C29_SentinelCycle ==
    [][ (pc = "top" /\ ~cancelled /\ sentinel /\ pc' # pc) =>
           /\ sentinel' = FALSE
           /\ polled' = "sentinel"
           /\ info' = NoInfo
           /\ lookup' = "none"
           /\ pc' = "sleep"
           /\ opKind' = "none"
           /\ invocations' = 0
           /\ session' = session
           /\ session = NoSession => lastWasLive' = FALSE ]_vars

\* C25: once the cancellation signal is raised monitorLoop returns: a
\* retry wait ends with the cancellation outcome and no further invocation,
\* the sleep ends at the top of the loop, and from the top of the loop the
\* only step is the return, with no status query.
C25_CancelTerminates ==
    /\ cancelled ~> (pc = "stopped")
    /\ [][ (cancelled /\ pc' # pc) =>
              /\ pc = "top" => (pc' = "stopped" /\ polled' = polled)
              /\ pc' # "query"
              /\ pc = "retry_wait" =>
                    (pc' = "retry_ret" /\ result' = "cancelled"
                       /\ invocations' = invocations)
              /\ pc = "sleep" => pc' = "top" ]_vars

C25_Witness ==
    /\ pc = "stopped"
    /\ session # NoSession
    /\ lastWasLive
    /\ outstanding = session.MessageID

\* C28: without cancellation, if the status query keeps answering "no
\* stream" and no finalize delivery fails forever, then whenever a session
\* exists the finalize operation is eventually invoked for its MessageID
\* and the session is eventually discarded.
C28_OfflineEventuallyFinalizes ==
    ( /\ []~cancelled
      /\ []<>(polled = "absent")
      /\ [](opKind = "finalize" => plan # 0) ) =>
        /\ (session # NoSession) ~>
              (/\ opKind = "finalize" /\ invocations >= 1
               /\ session # NoSession /\ addressed = session.MessageID)
        /\ (session # NoSession) ~> (session = NoSession)

C28_Witness ==
    /\ CycleEnd /\ polled = "absent" /\ hadSession
    /\ ~cancelled
    /\ opKind = "finalize" /\ result = "success"
    /\ invocations = MaxMonitorPlan
    /\ addressed = MaxHandle
    /\ session = NoSession

====
